---- MODULE Spec2Model ----
(***************************************************************************)
(* sdm-ui: a command-line companion that wraps the `sdm` tool.  The model  *)
(* covers the retry / re-authentication controller (App.RetryCommand), the *)
(* error classifier (parseSdmError), the credential provider               *)
(* (App.retrievePassword), the cache operations used by the connect and    *)
(* sync closures, and the top-level commands that drive them.              *)
(*                                                                         *)
(* One step of the model is one blocking interaction with the outside      *)
(* world (an invocation of the wrapped tool, the keyring/prompt dialogue,  *)
(* the interactive picker) together with all the code that runs up to the  *)
(* next such interaction.                                                  *)
(***************************************************************************)
EXTENDS Integers, Sequences, FiniteSets, TLC

(***************************************************************************)
(* Bounds                                                                  *)
(***************************************************************************)
MaxClock == 1
MaxPatternsInOutput == 1
MaxBlacklist == 2
MaxList == 3

Names == {"db", "web"}
Statuses == {"connected", "not connected"}
Passwords == {"pw"}
NoSecret == "<none>"

(***************************************************************************)
(* State                                                                   *)
(***************************************************************************)
VARIABLES
  pc,         \* position of the running top-level command ("idle": none)
  command,    \* the running top-level command
  exit,       \* how the last top-level command ended: "none", "ok", "fail"
  rcPc,       \* position inside the running RetryCommand invocation
  rcOp,       \* the closure handed to RetryCommand
  opHist,     \* results of the closure's calls in this invocation
  pwdHist,    \* results of retrievePassword in this invocation
  loginHist,  \* results of LoginWithContext in this invocation
  deletes,    \* DeleteSecret calls in this invocation
  notes,      \* desktop notifications of this invocation or selection
  rcErr,      \* what the invocation returned
  cmdLogins,  \* login invocations during the running top-level command
  secret,     \* what the keyring holds for the account
  cache,      \* the account's cached records
  now,        \* the clock (Unix seconds)
  selected,   \* the record the connect closure captured
  statusBuf,  \* Sync's statusesBuffer
  printed,    \* what the latest status invocation printed
  fn,         \* the function last applied on its own ("none": none)
  arg,        \* its arguments
  res         \* its result

rcVars == <<rcPc, rcOp, opHist, pwdHist, loginHist, deletes, notes, rcErr>>
fnVars == <<fn, arg, res>>
progVars == <<pc, command, exit, rcPc, rcOp, opHist, pwdHist, loginHist,
              deletes, notes, rcErr, cmdLogins, secret, cache, now, selected,
              statusBuf, printed>>
vars == <<pc, command, exit, rcPc, rcOp, opHist, pwdHist, loginHist, deletes,
          notes, rcErr, cmdLogins, secret, cache, now, selected, statusBuf,
          printed, fn, arg, res>>

(***************************************************************************)
(* Error classifier                                                        *)
(***************************************************************************)
Codes == {"Unauthorized", "InvalidCredentials", "ResourceNotFound",
          "ConnectionFailed", "PermissionDenied", "Unknown"}

errorMatchers ==
  << [pattern |-> "You are not authenticated",    code |-> "Unauthorized"],
     [pattern |-> "Authentication required",      code |-> "Unauthorized"],
     [pattern |-> "Cannot find datasource named", code |-> "ResourceNotFound"],
     [pattern |-> "Resource not found",           code |-> "ResourceNotFound"],
     [pattern |-> "access denied",                code |-> "InvalidCredentials"],
     [pattern |-> "Invalid credentials",          code |-> "InvalidCredentials"],
     [pattern |-> "Permission denied",            code |-> "PermissionDenied"],
     [pattern |-> "Connection refused",           code |-> "ConnectionFailed"],
     [pattern |-> "Could not connect",            code |-> "ConnectionFailed"],
     [pattern |-> "Timed out",                    code |-> "ConnectionFailed"] >>

Patterns == {errorMatchers[i].pattern : i \in DOMAIN errorMatchers}

\* The text a tool invocation printed, represented by the set of known
\* patterns it contains (all that strings.Contains can observe of it).
Outputs == {o \in SUBSET Patterns : Cardinality(o) <= MaxPatternsInOutput}

\* How cmd.Run ended: "nil" exit status 0; "exit" non-zero exit status;
\* "killed" aborted by deadline expiry or context cancellation;
\* "launch" the executable could not be started.
RunErrs == {"nil", "exit", "killed", "launch"}

\* What one invocation of the wrapped tool can do.
ToolResults ==
  {r \in [err : RunErrs, output : Outputs] :
      r.err = "launch" => r.output = {}}

\* Error values.  msg: the outermost message; sdm: the code of the SDMError
\* that errors.As finds in the chain ("none" when there is none); cause: the
\* run error at the bottom of the chain or, for an error built with %v, the
\* text that was formatted into the message; sentinel: the sentinel error
\* that errors.Is finds in the chain.
Nil == [msg |-> "nil", sdm |-> "none", cause |-> "nil", sentinel |-> "none"]

SDMError(code, err) ==
  [msg |-> "SDMError", sdm |-> code, cause |-> err, sentinel |-> "none"]

PlainError(msg, err) ==
  [msg |-> msg, sdm |-> "none", cause |-> err, sentinel |-> "none"]

\* fmt.Errorf("<msg>: %w", err)
Wrap(msg, err) == [err EXCEPT !.msg = msg]

RECURSIVE matchFrom(_, _)
matchFrom(i, output) ==
  IF i > Len(errorMatchers) THEN "Unknown"
  ELSE IF errorMatchers[i].pattern \in output THEN errorMatchers[i].code
  ELSE matchFrom(i + 1, output)

\* Variant: the `if err == nil` guard is missing.
parseSdmError_NoNilCheck(output, err) == SDMError(matchFrom(1, output), err)

parseSdmError(output, err) ==
  IF err = "nil" THEN Nil
  ELSE SDMError(matchFrom(1, output), err)

\* The Msg field of the SDMError that parseSdmError builds: the output as
\* it was handed in.
NoMsg == "<nil>"

SDMErrorMsg(output, err) == IF err = "nil" THEN NoMsg ELSE output

\* CommandRunner.RunCommandWithContext with the client's error parser set.
RunCommandWithContext(r) ==
  IF r.err # "nil" THEN parseSdmError(r.output, r.err) ELSE Nil

\* Variant: the runner's error is formatted with %v.
ClientCall_Opaque(msg, r) ==
  LET e == RunCommandWithContext(r)
  IN IF e # Nil THEN PlainError(msg, e.cause) ELSE Nil

\* SDMClient operations: the runner's error wrapped with %w.
ClientCall(msg, r) ==
  LET e == RunCommandWithContext(r)
  IN IF e # Nil THEN Wrap(msg, e) ELSE Nil

LogoutWithContext(r) == ClientCall("logout command failed", r)
LoginWithContext(r) == ClientCall("login command failed", r)
StatusWithContext(r) == ClientCall("status command failed", r)
ConnectWithContext(r) == ClientCall("connect command failed", r)

(***************************************************************************)
(* Credential provider                                                     *)
(***************************************************************************)
Cancel == "<cancel>"
PromptFail == "<fail>"
PromptResults == {Cancel, PromptFail, ""} \cup Passwords
Secrets == {NoSecret, ""} \cup Passwords

ErrPasswordRetrieval ==
  [msg |-> "failed to retrieve password", sdm |-> "none", cause |-> "nil",
   sentinel |-> "ErrPasswordRetrieval"]
ErrEmptyPassword ==
  [msg |-> "empty password provided", sdm |-> "none", cause |-> "nil",
   sentinel |-> "ErrEmptyPassword"]

\* App.askForPassword: the text of the error of a prompt that gave no
\* password.
askForPassword(prompt) ==
  IF prompt = Cancel THEN "password prompt canceled by user"
  ELSE "prompt failed"

\* Variant: a failure to save the entered password is returned.
retrievePassword_SaveRequired(sec, getOk, prompt, setOk) ==
  IF getOk /\ sec \in Passwords
  THEN [password |-> sec, err |-> Nil, secret |-> sec, prompted |-> FALSE]
  ELSE IF prompt \in {Cancel, PromptFail}
  THEN [password |-> "",
        err |-> [ErrPasswordRetrieval EXCEPT !.cause = askForPassword(prompt)],
        secret |-> sec, prompted |-> TRUE]
  ELSE IF prompt = ""
  THEN [password |-> "", err |-> ErrEmptyPassword, secret |-> sec,
        prompted |-> TRUE]
  ELSE IF ~setOk
  THEN [password |-> "", err |-> ErrPasswordRetrieval, secret |-> sec,
        prompted |-> TRUE]
  ELSE [password |-> prompt, err |-> Nil, secret |-> prompt, prompted |-> TRUE]

\* App.retrievePassword.  sec: what the keyring holds; getOk / setOk: whether
\* the keyring answers the lookup / the save; prompt: what the interactive
\* prompt yields when it is shown.
retrievePassword(sec, getOk, prompt, setOk) ==
  IF getOk /\ sec \in Passwords
  THEN [password |-> sec, err |-> Nil, secret |-> sec, prompted |-> FALSE]
  ELSE IF prompt \in {Cancel, PromptFail}
  THEN [password |-> "",
        err |-> [ErrPasswordRetrieval EXCEPT !.cause = askForPassword(prompt)],
        secret |-> sec, prompted |-> TRUE]
  ELSE IF prompt = ""
  THEN [password |-> "", err |-> ErrEmptyPassword, secret |-> sec,
        prompted |-> TRUE]
  ELSE [password |-> prompt, err |-> Nil,
        secret |-> IF setOk THEN prompt ELSE sec, prompted |-> TRUE]

\* Keyring.DeleteSecret; its error is ignored by every caller.
DeleteSecret(sec, kUp) == IF kUp THEN NoSecret ELSE sec

(***************************************************************************)
(* Resource cache (current account, current schema version)                *)
(***************************************************************************)
NoRec == [status |-> "<absent>", lru |-> 0]

Present(c) == {n \in Names : c[n] # NoRec}

\* Status listings: resource objects with pairwise distinct names.
Listings ==
  {l \in SUBSET [name : Names, status : Statuses] :
      \A x, y \in l : x.name = y.name => x = y}

EmptyBuf == [kind |-> "empty", items |-> {}]
TextBuf == [kind |-> "text", items |-> {}]
JsonBuf(l) == [kind |-> "json", items |-> l]
StatusOutputs == {TextBuf} \cup {JsonBuf(l) : l \in Listings}

\* bytes.Buffer.Reset and Write: what is written is appended, and two
\* outputs one after the other are not one JSON array.
Reset(buf) == EmptyBuf

Write(buf, out) ==
  IF buf = EmptyBuf THEN out
  ELSE IF out = EmptyBuf THEN buf
  ELSE TextBuf

parseDataSources(buf) == IF buf.kind = "json" THEN buf.items ELSE {}

\* Variant: `ds.LRU = existingDS.LRU` is missing, the parsed record (LRU
\* zero) is stored as it is.
StoreServers_ResetLRU(c, items) ==
  [n \in Names |->
     IF \E x \in items : x.name = n
     THEN LET x == CHOOSE y \in items : y.name = n
          IN [status |-> x.status, lru |-> 0]
     ELSE c[n]]

\* Variant: the bucket is replaced by the listing.
StoreServers_Prune(c, items) ==
  [n \in Names |->
     IF \E x \in items : x.name = n
     THEN LET x == CHOOSE y \in items : y.name = n
          IN [status |-> x.status, lru |-> c[n].lru]
     ELSE NoRec]

\* Storage.StoreServers: the LRU of an existing record is preserved.
StoreServers(c, items) ==
  [n \in Names |->
     IF \E x \in items : x.name = n
     THEN LET x == CHOOSE y \in items : y.name = n
          IN [status |-> x.status, lru |-> c[n].lru]
     ELSE c[n]]

\* Storage.UpdateLastUsed: writes the caller's copy with LRU = now.
UpdateLastUsed(c, ds, t) ==
  [c EXCEPT ![ds.name] = [status |-> ds.status, lru |-> t]]

\* The caches the account's bucket can hold.
Caches == [Names -> {NoRec} \cup [status : Statuses, lru : 0..MaxClock]]

\* The keys of the bucket in byte order, the order of bucket.ForEach.
KeyOrder == <<"db", "web">>

DataSource(c, n) == [name |-> n, status |-> c[n].status, lru |-> c[n].lru]

\* Variant: the iteration stops after the first record.
RetrieveDatasources_StopAfterFirst(c) ==
  LET F[i \in 0..Len(KeyOrder)] ==
        IF i = 0 THEN <<>>
        ELSE IF c[KeyOrder[i]] # NoRec /\ F[i - 1] = <<>>
        THEN Append(F[i - 1], DataSource(c, KeyOrder[i]))
        ELSE F[i - 1]
  IN F[Len(KeyOrder)]

\* Storage.RetrieveDatasources: every record of the bucket, in key order.
RetrieveDatasources(c) ==
  LET F[i \in 0..Len(KeyOrder)] ==
        IF i = 0 THEN <<>>
        ELSE IF c[KeyOrder[i]] # NoRec
        THEN Append(F[i - 1], DataSource(c, KeyOrder[i]))
        ELSE F[i - 1]
  IN F[Len(KeyOrder)]

\* The lists of records the listing steps can be handed: pairwise distinct
\* names, any order.
ListNames == Names \cup {"api"}

DataSources == [name : ListNames, status : Statuses, lru : 0..MaxClock]

DataSourceLists ==
  {l \in UNION {[1..k -> DataSources] : k \in 0..MaxList} :
      \A i, j \in 1..Len(l) : l[i].name = l[j].name => i = j}

(***************************************************************************)
(* Blacklist                                                               *)
(***************************************************************************)
\* Blacklist patterns: literal regular expressions, and "(" which does not
\* compile.
Regexes == {"d", "eb", "b", "x", "("}

Chars(s) ==
  CASE s = "db" -> <<"d", "b">>
    [] s = "web" -> <<"w", "e", "b">>
    [] s = "api" -> <<"a", "p", "i">>
    [] s = "eb" -> <<"e", "b">>
    [] OTHER -> <<s>>

Contains(s, t) ==
  \E i \in 1..(Len(s) - Len(t) + 1) : SubSeq(s, i, i + Len(t) - 1) = t

\* regexp.MatchString: (false, err) for a pattern that does not compile; a
\* literal pattern matches the strings that contain it.
MatchString(regex, s) ==
  IF regex = "(" THEN [match |-> FALSE, err |-> TRUE]
  ELSE [match |-> Contains(Chars(s), Chars(regex)), err |-> FALSE]

Blacklists ==
  UNION {[1..k -> Regexes] : k \in 0..MaxBlacklist}

\* The inner loop of applyBlacklist for one record: the first pattern for
\* which `match` is true (0: none).
FirstMatch(name, patterns) ==
  LET hits == {i \in 1..Len(patterns) : MatchString(patterns[i], name).match}
  IN IF hits = {} THEN 0 ELSE CHOOSE i \in hits : \A j \in hits : i <= j

\* Variant: only the first configured pattern is applied.
applyBlacklist_FirstPatternOnly(dataSources, patterns) ==
  IF Len(patterns) = 0 THEN [list |-> dataSources, warned |-> {}]
  ELSE [list |-> SelectSeq(dataSources,
                           LAMBDA ds : ~MatchString(patterns[1], ds.name).match),
        warned |-> {}]

\* App.applyBlacklist: the filtered list and the patterns warned about
\* ("Invalid regex pattern").
applyBlacklist(dataSources, patterns) ==
  IF Len(patterns) = 0 THEN [list |-> dataSources, warned |-> {}]
  ELSE [list |-> SelectSeq(dataSources,
                           LAMBDA ds : FirstMatch(ds.name, patterns) = 0),
        warned |-> {patterns[FirstMatch(dataSources[k].name, patterns)] :
                      k \in {j \in 1..Len(dataSources) :
                               LET m == FirstMatch(dataSources[j].name, patterns)
                               IN m # 0 /\ MatchString(patterns[m],
                                                       dataSources[j].name).err}}]

(***************************************************************************)
(* Retry / recovery controller                                             *)
(***************************************************************************)
Effect(next, ret, ns, del) ==
  [next |-> next, ret |-> ret, notes |-> ns, del |-> del]

ErrResourceNotFound ==
  [msg |-> "resource not found", sdm |-> "none", cause |-> "nil",
   sentinel |-> "ErrResourceNotFound"]

\* Variant: the bad secret is left in the keyring.
handleInvalidCredentials_NoDelete(err) ==
  Effect("returned", Wrap("invalid credentials", err),
         <<"Authentication error">>, FALSE)

\* App.handleInvalidCredentials
handleInvalidCredentials(err) ==
  Effect("returned", Wrap("invalid credentials", err),
         <<"Authentication error">>, TRUE)

\* Variant: the switch has no ResourceNotFound case.
RetryCommandSwitch_NoNotFound(err) ==
  CASE err.sdm = "Unauthorized" ->
         Effect("password", Nil, <<"Authenticating...">>, FALSE)
    [] err.sdm = "InvalidCredentials" -> handleInvalidCredentials(err)
    [] OTHER ->
         Effect("returned", Wrap("command error", err), <<"Error">>, FALSE)

\* App.RetryCommand, `switch sdmErr.Code`.
RetryCommandSwitch(err) ==
  CASE err.sdm = "Unauthorized" ->
         Effect("password", Nil, <<"Authenticating...">>, FALSE)
    [] err.sdm = "InvalidCredentials" -> handleInvalidCredentials(err)
    [] err.sdm = "ResourceNotFound" ->
         Effect("returned", ErrResourceNotFound, <<"Resource not found">>,
                FALSE)
    [] OTHER ->
         Effect("returned", Wrap("command error", err), <<"Error">>, FALSE)

\* Variant: the `err == nil` early return is missing.
RetryCommand_NoNilCheck(err) ==
  IF err.sdm = "none"
  THEN Effect("returned", Wrap("unexpected error", err),
              <<"Unexpected error">>, FALSE)
  ELSE RetryCommandSwitch(err)

\* Variant: an error that is no SDMError is dropped.
RetryCommand_SwallowUnclassified(err) ==
  IF err = Nil \/ err.sdm = "none" THEN Effect("returned", Nil, <<>>, FALSE)
  ELSE RetryCommandSwitch(err)

\* App.RetryCommand, from the return of the first exec() on.
RetryCommand(err) ==
  IF err = Nil THEN Effect("returned", Nil, <<>>, FALSE)
  ELSE IF err.sdm = "none"
  THEN Effect("returned", Wrap("unexpected error", err),
              <<"Unexpected error">>, FALSE)
  ELSE RetryCommandSwitch(err)

\* App.handleUnauthorized, after retrievePassword returned.
handleUnauthorizedPassword(err) ==
  IF err # Nil
  THEN Effect("returned", Wrap("failed to retrieve password", err),
              <<"Authentication error">>, FALSE)
  ELSE Effect("login", Nil, <<>>, FALSE)

\* Variant: the login error is ignored and the closure retried anyway.
handleUnauthorizedLogin_IgnoreFailure(err) == Effect("retry", Nil, <<>>, FALSE)

\* App.handleUnauthorized, after LoginWithContext returned.
handleUnauthorizedLogin(err) ==
  IF err # Nil
  THEN Effect("returned", Wrap("login failed", err),
              <<"Authentication error">>, TRUE)
  ELSE Effect("retry", Nil, <<>>, FALSE)

\* Variant: `return p.RetryCommand(command)`, the retried attempt's failure
\* is classified again (explored up to three attempts).
handleUnauthorizedRetry_Recurse(err) ==
  IF err.sdm = "Unauthorized" /\ Len(opHist) < 3
  THEN Effect("password", Nil, <<"Authenticating...">>, FALSE)
  ELSE Effect("returned", err, <<>>, FALSE)

\* Variant: `return fmt.Errorf("retry failed: %w", command())`, which is
\* non-nil even when the retry succeeded.
handleUnauthorizedRetry_Wrap(err) ==
  Effect("returned", Wrap("retry failed", err), <<>>, FALSE)

\* App.handleUnauthorized, `return command()`.
handleUnauthorizedRetry(err) == Effect("returned", err, <<>>, FALSE)

NoSelection == [name |-> "", status |-> "<absent>", lru |-> 0]
NoCall == [none |-> TRUE]

Init ==
  /\ pc = "idle" /\ command = "none" /\ exit = "none"
  /\ rcPc = "idle" /\ rcOp = "none"
  /\ opHist = <<>> /\ pwdHist = <<>> /\ loginHist = <<>>
  /\ deletes = 0 /\ notes = <<>> /\ rcErr = Nil
  /\ cmdLogins = 0
  /\ secret \in Secrets
  /\ cache = [n \in Names |-> NoRec]
  /\ now = 0
  /\ selected = NoSelection
  /\ statusBuf = EmptyBuf
  /\ printed = EmptyBuf
  /\ fn = "none" /\ arg = NoCall /\ res = NoCall

(***************************************************************************)
(* RetryCommand, step by step                                              *)
(***************************************************************************)
\* Entering RetryCommand(exec) with the closure op.
StartRC(op) ==
  /\ rcPc' = "attempt" /\ rcOp' = op
  /\ opHist' = <<>> /\ pwdHist' = <<>> /\ loginHist' = <<>>
  /\ deletes' = 0 /\ notes' = <<>> /\ rcErr' = Nil

\* One call of the closure.  "connect": handleSelectedEntry / Fzf closure;
\* "status": Sync's closure; "custom": any other func() error, whose error
\* need not be an SDMError.  An input i gives the tool's result i.r, what
\* the status invocation printed (i.out) and, for a custom closure, whether
\* its error is an SDMError (i.classified).  A failed invocation whose
\* output carries a known error message printed text; any other status
\* invocation, failed or not, may have printed a listing.
ExecInputs(op) ==
  {i \in [r : ToolResults,
          out : IF op = "status" THEN StatusOutputs ELSE {TextBuf},
          classified : IF op = "custom" THEN BOOLEAN ELSE {TRUE}] :
      /\ (i.r.err # "nil" /\ (op # "status" \/ i.r.output # {}))
           => i.out = TextBuf
      /\ i.r.err = "nil" => i.classified}

\* Variant: Sync's closure does not reset statusesBuffer before the call.
Exec_NoReset(op, i) ==
  CASE op = "connect" ->
         [err |-> ConnectWithContext(i.r),
          cache |-> UpdateLastUsed(cache, selected, now),
          buf |-> statusBuf,
          printed |-> printed]
    [] op = "status" ->
         [err |-> StatusWithContext(i.r),
          cache |-> cache,
          buf |-> Write(statusBuf, i.out),
          printed |-> i.out]
    [] OTHER ->
         [err |-> IF i.classified
                  THEN RunCommandWithContext(i.r)
                  ELSE PlainError("custom", i.r.err),
          cache |-> cache,
          buf |-> statusBuf,
          printed |-> printed]

Exec(op, i) ==
  CASE op = "connect" ->
         [err |-> ConnectWithContext(i.r),
          cache |-> UpdateLastUsed(cache, selected, now),
          buf |-> statusBuf,
          printed |-> printed]
    [] op = "status" ->
         [err |-> StatusWithContext(i.r),
          cache |-> cache,
          buf |-> Write(Reset(statusBuf), i.out),
          printed |-> i.out]
    [] OTHER ->
         [err |-> IF i.classified
                  THEN RunCommandWithContext(i.r)
                  ELSE PlainError("custom", i.r.err),
          cache |-> cache,
          buf |-> statusBuf,
          printed |-> printed]

\* The keyring answers a DeleteSecret or not; only asked when d deletes.
KeyringUp(d) == IF d.del THEN BOOLEAN ELSE {TRUE}

Apply(d, kUp) ==
  /\ rcPc' = d.next
  /\ rcErr' = d.ret
  /\ notes' = notes \o d.notes
  /\ deletes' = deletes + (IF d.del THEN 1 ELSE 0)
  /\ secret' = IF d.del THEN DeleteSecret(secret, kUp) ELSE secret

Attempt ==
  /\ rcPc = "attempt"
  /\ \E i \in ExecInputs(rcOp) :
       LET x == Exec(rcOp, i)
           d == RetryCommand(x.err)
       IN /\ opHist' = Append(opHist, x.err)
          /\ cache' = x.cache
          /\ statusBuf' = x.buf
          /\ printed' = x.printed
          /\ \E kUp \in KeyringUp(d) : Apply(d, kUp)
  /\ UNCHANGED <<pc, command, exit, rcOp, pwdHist, loginHist, cmdLogins,
                 now, selected>>
  /\ UNCHANGED fnVars

Password ==
  /\ rcPc = "password"
  /\ \E getOk, setOk \in BOOLEAN, prompt \in PromptResults :
       LET p == retrievePassword(secret, getOk, prompt, setOk)
           d == handleUnauthorizedPassword(p.err)
       IN /\ pwdHist' = Append(pwdHist, [err |-> p.err, prompted |-> p.prompted])
          /\ rcPc' = d.next
          /\ rcErr' = d.ret
          /\ notes' = notes \o d.notes
          /\ secret' = p.secret
  /\ UNCHANGED <<pc, command, exit, rcOp, opHist, loginHist, deletes,
                 cmdLogins, cache, now, selected, statusBuf, printed>>
  /\ UNCHANGED fnVars

Login ==
  /\ rcPc = "login"
  /\ \E r \in ToolResults :
       LET e == LoginWithContext(r)
           d == handleUnauthorizedLogin(e)
       IN /\ loginHist' = Append(loginHist, e)
          /\ \E kUp \in KeyringUp(d) : Apply(d, kUp)
  /\ cmdLogins' = cmdLogins + 1
  /\ UNCHANGED <<pc, command, exit, rcOp, opHist, pwdHist, cache, now,
                 selected, statusBuf, printed>>
  /\ UNCHANGED fnVars

Retry ==
  /\ rcPc = "retry"
  /\ \E i \in ExecInputs(rcOp) :
       LET x == Exec(rcOp, i)
           d == handleUnauthorizedRetry(x.err)
       IN /\ opHist' = Append(opHist, x.err)
          /\ cache' = x.cache
          /\ statusBuf' = x.buf
          /\ printed' = x.printed
          /\ \E kUp \in KeyringUp(d) : Apply(d, kUp)
  /\ UNCHANGED <<pc, command, exit, rcOp, pwdHist, loginHist, cmdLogins,
                 now, selected>>
  /\ UNCHANGED fnVars

(***************************************************************************)
(* Recency sort: slices.SortFunc(dataSources, cmp)                         *)
(***************************************************************************)
\* cmp(a, b) < 0 for cmp(a, b) = int(b.LRU - a.LRU).
Less(a, b) == b.lru - a.lru < 0

Swap(d, i, j) == [d EXCEPT ![i] = d[j], ![j] = d[i]]

\* The inner loop of insertion sort: x moves left past every element it is
\* less than.
RECURSIVE InsertLeft(_, _)
InsertLeft(s, x) ==
  IF s = <<>> \/ ~Less(x, s[Len(s)]) THEN Append(s, x)
  ELSE Append(InsertLeft(SubSeq(s, 1, Len(s) - 1), x), s[Len(s)])

insertionSort(d) ==
  LET F[i \in 0..Len(d)] == IF i = 0 THEN <<>> ELSE InsertLeft(F[i - 1], d[i])
  IN F[Len(d)]

\* Slices of at most maxInsertion elements are insertion-sorted.
maxInsertion == 12

\* order2: the two indices, the one of the smaller element first, and
\* whether they were exchanged.
order2(d, a, b) ==
  IF Less(d[b], d[a]) THEN [x |-> b, y |-> a, swaps |-> 1]
  ELSE [x |-> a, y |-> b, swaps |-> 0]

\* choosePivot for 8 <= length < 50: the median of the elements at one,
\* two and three quarters; hint "increasing" when no exchange was needed.
choosePivot(d) ==
  LET q == Len(d) \div 4
      o1 == order2(d, 1 + q, 1 + 2 * q)
      o2 == order2(d, o1.y, 1 + 3 * q)
      o3 == order2(d, o1.x, o2.x)
  IN [pivot |-> o3.y,
      hint |-> IF o1.swaps + o2.swaps + o3.swaps = 0 THEN "increasing"
               ELSE "unknown"]

\* partialInsertionSort on a short slice: true exactly when no element is
\* less than its predecessor; the slice is left as it is.
partialInsertionSort(d) == \A i \in 2..Len(d) : ~Less(d[i], d[i - 1])

RECURSIVE ScanUp(_, _, _)
ScanUp(d, i, j) ==
  IF i <= j /\ Less(d[i], d[1]) THEN ScanUp(d, i + 1, j) ELSE i

RECURSIVE ScanDown(_, _, _)
ScanDown(d, i, j) ==
  IF i <= j /\ ~Less(d[j], d[1]) THEN ScanDown(d, i, j - 1) ELSE j

RECURSIVE partitionLoop(_, _, _)
partitionLoop(d, i, j) ==
  LET i2 == ScanUp(d, i, j)
      j2 == ScanDown(d, i2, j)
  IN IF i2 > j2 THEN [d |-> d, j |-> j2]
     ELSE partitionLoop(Swap(d, i2, j2), i2 + 1, j2 - 1)

\* partition: the pivot goes to the front, the elements less than it are
\* gathered on the left, and the pivot is put between the two parts.
partition(d, pivot) ==
  LET r == partitionLoop(Swap(d, 1, pivot), 2, Len(d))
  IN [d |-> Swap(r.d, r.j, 1), mid |-> r.j]

\* Variant: the comparison is `a.LRU - b.LRU` (ascending).
SortFunc_Ascending(d) ==
  LET s == insertionSort(d)
  IN [i \in 1..Len(s) |-> s[Len(s) + 1 - i]]

\* slices.SortFunc (pattern-defeating quicksort) for slices of up to
\* maxInsertion + 1 elements: a longer slice is partitioned once around the
\* chosen pivot, unless it is found sorted, and both parts, of at most
\* maxInsertion elements, are insertion-sorted.
SortFunc(d) ==
  IF Len(d) <= maxInsertion THEN insertionSort(d)
  ELSE LET c == choosePivot(d)
       IN IF c.hint = "increasing" /\ partialInsertionSort(d) THEN d
          ELSE LET p == partition(d, c.pivot)
               IN insertionSort(SubSeq(p.d, 1, p.mid - 1))
                    \o <<p.d[p.mid]>>
                    \o insertionSort(SubSeq(p.d, p.mid + 1, Len(d)))

(***************************************************************************)
(* Top-level commands                                                      *)
(***************************************************************************)
Commands == {"sync", "list", "dmenu", "fzf", "custom"}

ResetRC ==
  /\ rcPc' = "idle" /\ rcOp' = "none"
  /\ opHist' = <<>> /\ pwdHist' = <<>> /\ loginHist' = <<>>
  /\ deletes' = 0 /\ notes' = <<>> /\ rcErr' = Nil

\* The picker's outcome when no record was captured for a connect.
Unpicked(choice) == [name |-> choice, status |-> "<absent>", lru |-> 0]

\* The process of the top-level command ends with the given result, after
\* the picker handed back sel and the notifications ns were shown outside
\* RetryCommand.
FinishWith(result, ns, sel) ==
  /\ pc' = "idle" /\ command' = "none" /\ exit' = result
  /\ rcPc' = "idle" /\ rcOp' = "none"
  /\ opHist' = <<>> /\ pwdHist' = <<>> /\ loginHist' = <<>>
  /\ deletes' = 0 /\ notes' = ns /\ rcErr' = Nil
  /\ cmdLogins' = 0
  /\ selected' = sel
  /\ statusBuf' = EmptyBuf
  /\ printed' = EmptyBuf

\* The process of the top-level command ends with the given result.
Finish(result) == FinishWith(result, <<>>, NoSelection)

\* What follows the cache read in List / DMenu / Fzf once the records c are
\* at hand: the configured blacklist is applied and the entries are sorted
\* by recency; List prints the entries;
\* DMenu returns at once when there is no entry to show; otherwise the
\* picker is displayed.
AfterListing(cmd, c) ==
  \E shown \in {SortFunc(applyBlacklist(RetrieveDatasources(c), patterns).list) :
                  patterns \in Blacklists} :
       IF cmd = "list" \/ (cmd = "dmenu" /\ Len(shown) = 0)
       THEN Finish("ok")
       ELSE /\ pc' = "select"
            /\ ResetRC
            /\ statusBuf' = EmptyBuf
            /\ printed' = EmptyBuf
            /\ command' = cmd
            /\ exit' = "none"
            /\ selected' = NoSelection
            /\ UNCHANGED cmdLogins

\* Variant: GetSortedDataSources syncs before every listing.
StartCommand_SyncAlways(cmd) ==
  /\ pc = "idle"
  /\ pc' = IF cmd = "sync" \/ cmd = "custom" THEN cmd ELSE "listSync"
  /\ command' = cmd
  /\ exit' = "none"
  /\ StartRC(IF cmd = "custom" THEN "custom" ELSE "status")
  /\ selected' = NoSelection
  /\ UNCHANGED <<cmdLogins, statusBuf, printed>>
  /\ UNCHANGED <<secret, cache, now>>
  /\ UNCHANGED fnVars

\* A top-level command starts and runs up to its first blocking call.
StartCommand(cmd) ==
  /\ pc = "idle"
  /\ IF cmd = "sync" \/ cmd = "custom"
     THEN /\ pc' = cmd
          /\ command' = cmd
          /\ exit' = "none"
          /\ StartRC(IF cmd = "sync" THEN "status" ELSE "custom")
          /\ selected' = NoSelection
          /\ UNCHANGED <<cmdLogins, statusBuf, printed>>
     ELSE IF Present(cache) = {}
     THEN /\ pc' = "listSync"
          /\ command' = cmd
          /\ exit' = "none"
          /\ StartRC("status")
          /\ selected' = NoSelection
          /\ UNCHANGED <<cmdLogins, statusBuf, printed>>
     ELSE AfterListing(cmd, cache)
  /\ UNCHANGED <<secret, cache, now>>
  /\ UNCHANGED fnVars

\* Variant: DMenu / Fzf return the error of the Sync that follows a connect.
SyncReturn_Propagate ==
  /\ pc \in {"listSync", "sync", "postSync"}
  /\ rcPc = "returned"
  /\ IF rcErr # Nil
     THEN /\ cache' = cache
          /\ FinishWith("fail", <<>>, selected)
     ELSE /\ cache' = StoreServers(cache, parseDataSources(statusBuf))
          /\ IF pc = "listSync"
             THEN AfterListing(command, cache')
             ELSE FinishWith("ok", <<>>, selected)
  /\ UNCHANGED <<secret, now>>
  /\ UNCHANGED fnVars

\* Variant: Sync parses and stores the buffer whatever RetryCommand returned.
SyncReturn_StoreAlways ==
  /\ pc \in {"listSync", "sync", "postSync"}
  /\ rcPc = "returned"
  /\ cache' = StoreServers(cache, parseDataSources(statusBuf))
  /\ IF rcErr # Nil
     THEN FinishWith(IF pc = "postSync" THEN "ok" ELSE "fail", <<>>,
                     selected)
     ELSE IF pc = "listSync"
          THEN AfterListing(command, cache')
          ELSE FinishWith("ok", <<>>, selected)
  /\ UNCHANGED <<secret, now>>
  /\ UNCHANGED fnVars

\* Sync after RetryCommand returned, and what the caller of Sync does next.
\* The record a connect was made to stays the command's selection while the
\* follow-up Sync runs and when the command ends.
SyncReturn ==
  /\ pc \in {"listSync", "sync", "postSync"}
  /\ rcPc = "returned"
  /\ IF rcErr # Nil
     THEN /\ cache' = cache
          /\ FinishWith(IF pc = "postSync" THEN "ok" ELSE "fail", <<>>,
                        selected)
     ELSE /\ cache' = StoreServers(cache, parseDataSources(statusBuf))
          /\ IF pc = "listSync"
             THEN AfterListing(command, cache')
             ELSE FinishWith("ok", <<>>, selected)
  /\ UNCHANGED <<secret, now>>
  /\ UNCHANGED fnVars

\* What the picker hands back: the name of an entry, the user's
\* cancellation, or a failure of the picker itself.
PickerResults == Names \cup {"<cancel>", "<error>"}

\* Variant: handleSelectedEntry connects without looking the name up.
Select_NoLookup ==
  /\ pc = "select"
  /\ \E choice \in PickerResults :
       /\ command = "fzf" /\ choice \in Names => choice \in Present(cache)
       /\ IF choice = "<error>"
          THEN FinishWith("fail", <<>>, Unpicked(choice))
          ELSE IF choice = "<cancel>"
          THEN FinishWith(IF command = "dmenu" THEN "ok" ELSE "fail", <<>>,
                          Unpicked(choice))
          ELSE /\ pc' = "connect"
               /\ selected' = Unpicked(choice)
               /\ StartRC("connect")
               /\ UNCHANGED <<command, exit, cmdLogins, statusBuf, printed>>
  /\ UNCHANGED <<secret, cache, now>>
  /\ UNCHANGED fnVars

\* The interactive picker returns; DMenu.handleSelectedEntry / Fzf run up to
\* the first call of the connect closure.  A cancelled menu ends with exit
\* status 1, which getSelectionFromDmenu turns into ErrNoSelection and DMenu
\* into nil; a cancelled fuzzy finder makes FindMulti return its abort
\* error, which Fzf returns like any other error of the finder.  A menu
\* entry naming no record is notified as "Resource not found".
Select ==
  /\ pc = "select"
  /\ \E choice \in PickerResults :
       /\ command = "fzf" /\ choice \in Names => choice \in Present(cache)
       /\ IF choice = "<error>"
          THEN FinishWith("fail", <<>>, Unpicked(choice))
          ELSE IF choice = "<cancel>"
          THEN FinishWith(IF command = "dmenu" THEN "ok" ELSE "fail", <<>>,
                          Unpicked(choice))
          ELSE IF cache[choice] = NoRec
          THEN FinishWith("ok", <<"Resource not found">>, Unpicked(choice))
          ELSE /\ pc' = "connect"
               /\ selected' = [name |-> choice,
                               status |-> cache[choice].status,
                               lru |-> cache[choice].lru]
               /\ StartRC("connect")
               /\ UNCHANGED <<command, exit, cmdLogins, statusBuf, printed>>
  /\ UNCHANGED <<secret, cache, now>>
  /\ UNCHANGED fnVars

\* The selection once the connect has been made: from here on only the
\* name of the selected record is read.
Connected(n) == [name |-> n, status |-> "connected", lru |-> 0]

\* handleSelectedEntry / Fzf after the connect's RetryCommand returned.
ConnectReturn ==
  /\ pc = "connect"
  /\ rcPc = "returned"
  /\ IF rcErr # Nil
     THEN Finish("fail")
     ELSE /\ pc' = "postSync"
          /\ selected' = Connected(selected.name)
          /\ StartRC("status")
          /\ UNCHANGED <<command, exit, cmdLogins, statusBuf, printed>>
  /\ UNCHANGED <<secret, cache, now>>
  /\ UNCHANGED fnVars

\* The caller of a custom closure receives RetryCommand's result.
CustomReturn ==
  /\ pc = "custom"
  /\ rcPc = "returned"
  /\ Finish(IF rcErr = Nil THEN "ok" ELSE "fail")
  /\ UNCHANGED <<secret, cache, now>>
  /\ UNCHANGED fnVars

\* Time passes.
Tick ==
  /\ now < MaxClock
  /\ now' = now + 1
  /\ UNCHANGED <<pc, command, exit, rcVars, cmdLogins, secret, cache,
                 selected, statusBuf, printed>>
  /\ UNCHANGED fnVars

Next ==
  \/ \E cmd \in Commands : StartCommand(cmd)
  \/ Attempt
  \/ Password
  \/ Login
  \/ Retry
  \/ SyncReturn
  \/ Select
  \/ ConnectReturn
  \/ CustomReturn
  \/ Tick

Spec == Init /\ [][Next]_vars

\* One RetryCommand invocation after the other, each over an arbitrary
\* closure, where every call returns: the tool invocations and the prompt
\* end, and the code between them runs.
Running == Attempt \/ Password \/ Login \/ Retry

NextRetry ==
  \/ StartCommand("custom")
  \/ Running
  \/ CustomReturn

RetrySpec == Init /\ [][NextRetry]_vars /\ WF_vars(Running)

(***************************************************************************)
(* Inputs of the recency sort                                              *)
(***************************************************************************)
\* A cache of maxInsertion + 1 records, read in key order, of which exactly
\* one has been connected to.
LongNames ==
  <<"r01", "r02", "r03", "r04", "r05", "r06", "r07", "r08", "r09", "r10",
    "r11", "r12", "r13">>

LongLists ==
  {[i \in 1..Len(LongNames) |->
      [name |-> LongNames[i], status |-> "not connected",
       lru |-> IF i = k THEN t ELSE 0]] :
     k \in 1..Len(LongNames), t \in 1..MaxClock}

\* Three records read in key order whose lastUsedAt values may all differ.
TimedLists ==
  {<<[name |-> "api", status |-> "not connected", lru |-> a],
     [name |-> "db", status |-> "not connected", lru |-> b],
     [name |-> "web", status |-> "not connected", lru |-> c]>> :
     a, b, c \in 0..(MaxClock + 1)}

(***************************************************************************)
(* The storage and listing functions applied on their own to every input   *)
(***************************************************************************)
\* The tail of Sync: the captured output is parsed and stored; then the
\* bucket is read back.
CallSync ==
  /\ fn = "none"
  /\ \E c \in Caches, buf \in StatusOutputs \cup {EmptyBuf} :
       LET stored == StoreServers(c, parseDataSources(buf))
       IN /\ fn' = "Sync"
          /\ arg' = [cache |-> c, buf |-> buf]
          /\ res' = [cache |-> stored, list |-> RetrieveDatasources(stored)]
  /\ UNCHANGED progVars

\* The blacklist step of GetSortedDataSources.
CallBlacklist ==
  /\ fn = "none"
  /\ \E l \in DataSourceLists, patterns \in Blacklists :
       /\ fn' = "applyBlacklist"
       /\ arg' = [list |-> l, patterns |-> patterns]
       /\ res' = applyBlacklist(l, patterns)
  /\ UNCHANGED progVars

\* One application per behaviour, from the state after construction.
FnInit == Init /\ secret = NoSecret

\* The sort step of GetSortedDataSources.
CallSort ==
  /\ fn = "none"
  /\ \E l \in DataSourceLists \cup LongLists \cup TimedLists :
       /\ fn' = "SortFunc"
       /\ arg' = [list |-> l]
       /\ res' = [list |-> SortFunc(l)]
  /\ UNCHANGED progVars

\* Outputs handed to the classifier on its own: they may hold one pattern
\* more than the outputs of the whole-program runs.
ClassifierOutputs ==
  {o \in SUBSET Patterns : Cardinality(o) <= MaxPatternsInOutput + 1}

\* The classifier applied to an output and a run error.
CallParse ==
  /\ fn = "none"
  /\ \E output \in ClassifierOutputs, err \in RunErrs :
       /\ fn' = "parseSdmError"
       /\ arg' = [output |-> output, err |-> err]
       /\ res' = [err |-> parseSdmError(output, err),
                 msg |-> SDMErrorMsg(output, err)]
  /\ UNCHANGED progVars

ClientOps == {"logout", "login", "status", "connect"}

ClientOp(op, r) ==
  CASE op = "logout" -> LogoutWithContext(r)
    [] op = "login" -> LoginWithContext(r)
    [] op = "status" -> StatusWithContext(r)
    [] op = "connect" -> ConnectWithContext(r)

\* One client operation over one invocation of the wrapped tool.
CallClient ==
  /\ fn = "none"
  /\ \E op \in ClientOps, r \in ToolResults :
       /\ fn' = "SDMClient"
       /\ arg' = [op |-> op, r |-> r]
       /\ res' = [err |-> ClientOp(op, r)]
  /\ UNCHANGED progVars

(***************************************************************************)
(* Account validation                                                      *)
(***************************************************************************)
\* The configured account, and the accounts the tool or the cache may know:
\* one whose identifier extends the configured one, and an unrelated one.
CurrentAccount == "u@x"
Accounts == {"u@x", "u@x.org", "v@y"}

\* What the ready invocation gives: the run failed, its output is no JSON,
\* the output names no account, or it names one.
ReadyResults == {"<fail>", "<badjson>", "<nil>"} \cup Accounts

ErrJSONParsing ==
  [msg |-> "failed to parse JSON output", sdm |-> "none", cause |-> "nil",
   sentinel |-> "ErrJSONParsing"]

\* SDMClient.ReadyWithContext: the account, or the error.
ReadyWithContext(ready) ==
  IF ready = "<fail>"
  THEN [account |-> "<nil>",
        err |-> Wrap("ready command failed", PlainError("command failed", "exit"))]
  ELSE IF ready = "<badjson>"
  THEN [account |-> "<nil>", err |-> ErrJSONParsing]
  ELSE [account |-> ready, err |-> Nil]

\* Variant: every failure of the logout is returned.
ValidateAccount_StrictLogout(ready, r) ==
  LET status == ReadyWithContext(ready)
  IN IF status.err # Nil
     THEN [err |-> Wrap("ready check failed", status.err), logout |-> FALSE]
     ELSE IF status.account # "<nil>" /\ status.account # CurrentAccount
     THEN LET e == LogoutWithContext(r)
          IN [err |-> IF e # Nil THEN Wrap("failed to logout", e) ELSE Nil,
              logout |-> TRUE]
     ELSE [err |-> Nil, logout |-> FALSE]

\* App.ValidateAccount.  ready: the outcome of the ready invocation; r: the
\* result of the logout invocation when one is made.  logout: whether the
\* logout was invoked.
ValidateAccount(ready, r) ==
  LET status == ReadyWithContext(ready)
  IN IF status.err # Nil
     THEN [err |-> Wrap("ready check failed", status.err), logout |-> FALSE]
     ELSE IF status.account # "<nil>" /\ status.account # CurrentAccount
     THEN LET e == LogoutWithContext(r)
          IN [err |-> IF e # Nil /\ e.sdm # "Unauthorized"
                      THEN Wrap("failed to logout", e)
                      ELSE Nil,
              logout |-> TRUE]
     ELSE [err |-> Nil, logout |-> FALSE]

CallValidate ==
  /\ fn = "none"
  /\ \E ready \in ReadyResults, r \in ToolResults :
       /\ fn' = "ValidateAccount"
       /\ arg' = [ready |-> ready, r |-> r]
       /\ res' = ValidateAccount(ready, r)
  /\ UNCHANGED progVars

\* The first half of handleUnauthorized: the password is retrieved and the
\* login is attempted or not.
CallRetrieve ==
  /\ fn = "none"
  /\ \E sec \in Secrets, getOk, setOk \in BOOLEAN, prompt \in PromptResults :
       LET p == retrievePassword(sec, getOk, prompt, setOk)
       IN /\ fn' = "retrievePassword"
          /\ arg' = [sec |-> sec, getOk |-> getOk, prompt |-> prompt,
                     setOk |-> setOk]
          /\ res' = [password |-> p.password, err |-> p.err,
                     secret |-> p.secret, prompted |-> p.prompted,
                     next |-> handleUnauthorizedPassword(p.err).next]
  /\ UNCHANGED progVars

(***************************************************************************)
(* Cache file: one bucket per account and schema version                   *)
(***************************************************************************)
currentDBVersion == 2
retentionPeriod == 2

\* Schema versions a bucket name may carry, from one below the oldest
\* retained version up to the current one, and the mark of a bucket name
\* without version.
Versions == (currentDBVersion - retentionPeriod - 1)..currentDBVersion
Legacy == "legacy"

\* strconv.Itoa / strconv.Atoi on the version numbers.
Itoa(n) ==
  CASE n = -1 -> "-1" [] n = 0 -> "0" [] n = 1 -> "1" [] n = 2 -> "2"
    [] n = 3 -> "3"

Atoi(s) == CHOOSE n \in -1..3 : Itoa(n) = s

\* A bucket is known by its account and the version in its name.
BucketKeys ==
  [account : Accounts, version : {Itoa(v) : v \in Versions} \cup {Legacy}]

AccountChars(a) ==
  CASE a = "u@x" -> <<"u", "@", "x">>
    [] a = "u@x.org" -> <<"u", "@", "x", ".", "o", "r", "g">>
    [] a = "v@y" -> <<"v", "@", "y">>

\* buildBucketKey: "<account>:datasource:v<version>", as the sequence of
\* its characters with the word and the number as one symbol each.
buildBucketKey(account, version) ==
  AccountChars(account) \o <<":", "datasource", ":", "v", Itoa(version)>>

\* The name of a bucket written before names carried a version.
BucketName(k) ==
  IF k.version = Legacy THEN AccountChars(k.account) \o <<":", "datasource">>
  ELSE buildBucketKey(k.account, Atoi(k.version))

\* strings.Split(s, ":")
RECURSIVE Split(_)
Split(s) ==
  IF \A i \in 1..Len(s) : s[i] # ":" THEN <<s>>
  ELSE LET i == CHOOSE j \in 1..Len(s) :
                  s[j] = ":" /\ \A m \in 1..(j - 1) : s[m] # ":"
       IN <<SubSeq(s, 1, i - 1)>> \o Split(SubSeq(s, i + 1, Len(s)))

\* strings.HasPrefix
HasPrefix(s, p) == Len(p) <= Len(s) /\ SubSeq(s, 1, Len(p)) = p

\* The file: for every bucket name the records it holds, or no bucket.
NoRecords == [n \in Names |-> NoRec]
NoBucket == [exists |-> FALSE, records |-> NoRecords]
EmptyBucket == [exists |-> TRUE, records |-> NoRecords]
BucketContents ==
  {EmptyBucket,
   [exists |-> TRUE,
    records |-> [NoRecords EXCEPT
                   !["db"] = [status |-> "connected", lru |-> 1]]],
   [exists |-> TRUE,
    records |-> [NoRecords EXCEPT
                   !["db"] = [status |-> "connected", lru |-> 1],
                   !["web"] = [status |-> "not connected", lru |-> 0]]]}

MaxBuckets == 2

DBs ==
  UNION {{[k \in BucketKeys |-> IF k \in S THEN f[k] ELSE NoBucket] :
            f \in [S -> BucketContents]} :
         S \in {T \in SUBSET BucketKeys : Cardinality(T) <= MaxBuckets}}

CurrentKey ==
  [account |-> CurrentAccount, version |-> Itoa(currentDBVersion)]

\* Storage.ensureBucketExists
ensureBucketExists(db) ==
  IF db[CurrentKey] = NoBucket THEN [db EXCEPT ![CurrentKey] = EmptyBucket]
  ELSE db

\* The first pass of removeOldBuckets: whether the bucket named name is to
\* be deleted.
IsOldBucket(name, retention) ==
  LET parts == Split(name)
  IN IF Len(parts) = 2 THEN TRUE
     ELSE IF Len(parts) = 3 /\ HasPrefix(parts[1], AccountChars(CurrentAccount))
     THEN /\ HasPrefix(parts[3], <<"v">>)
          /\ currentDBVersion - Atoi(parts[3][2]) > retention
     ELSE FALSE

\* Variant: a bucket exactly retention versions behind is removed too.
removeOldBuckets_OffByOne(db, retention) ==
  [k \in BucketKeys |->
     IF db[k] # NoBucket /\ k.version # Legacy
        /\ currentDBVersion - Atoi(k.version) >= retention
     THEN NoBucket ELSE db[k]]

\* Storage.removeOldBuckets
removeOldBuckets(db, retention) ==
  [k \in BucketKeys |->
     IF db[k] # NoBucket /\ IsOldBucket(BucketName(k), retention)
     THEN NoBucket ELSE db[k]]

\* NewStorage, from the opened file on.
NewStorage(db) == removeOldBuckets(ensureBucketExists(db), retentionPeriod)

CallNewStorage ==
  /\ fn = "none"
  /\ \E db \in DBs :
       /\ fn' = "NewStorage"
       /\ arg' = [db |-> db]
       /\ res' = [db |-> NewStorage(db)]
  /\ UNCHANGED progVars

\* Storage.Wipe: every bucket whose name starts with the account is deleted.
Wipe(db) ==
  [k \in BucketKeys |->
     IF db[k].exists /\ HasPrefix(BucketName(k), AccountChars(CurrentAccount))
     THEN NoBucket ELSE db[k]]

\* The wipe command: the file is opened (NewStorage) and wiped.
CallWipe ==
  /\ fn = "none"
  /\ \E db \in DBs :
       /\ fn' = "Wipe"
       /\ arg' = [db |-> db]
       /\ res' = [opened |-> NewStorage(db), db |-> Wipe(NewStorage(db))]
  /\ UNCHANGED progVars

\* Variant: a record holding only the name and the new LRU is stored.
UpdateLastUsedTx_Bare(db, ds, t) ==
  IF ~db[CurrentKey].exists THEN db
  ELSE [db EXCEPT ![CurrentKey].records =
                    [@ EXCEPT ![ds.name] = [status |-> "", lru |-> t]]]

\* Storage.UpdateLastUsed on the file: the record is put into the bucket of
\* the configured account and the current version (ErrBucketNotFound when
\* the bucket is missing).
UpdateLastUsedTx(db, ds, t) ==
  IF ~db[CurrentKey].exists THEN db
  ELSE [db EXCEPT ![CurrentKey].records = UpdateLastUsed(@, ds, t)]

\* The connect closure's cache write at time t on a file just opened: the
\* record handed to UpdateLastUsed is the one read from the bucket
\* (GetDatasource in handleSelectedEntry, the listing in Fzf).
CallUpdateLastUsed ==
  /\ fn = "none"
  /\ \E db \in DBs, n \in Names, t \in 0..MaxClock :
       LET opened == NewStorage(db)
           records == opened[CurrentKey].records
       IN /\ records[n] # NoRec
          /\ fn' = "UpdateLastUsed"
          /\ arg' = [db |-> opened, name |-> n, t |-> t]
          /\ res' = [db |-> UpdateLastUsedTx(opened, DataSource(records, n), t)]
  /\ UNCHANGED progVars

FnNext ==
  \/ CallSync
  \/ CallBlacklist
  \/ CallSort
  \/ CallParse
  \/ CallClient
  \/ CallValidate
  \/ CallRetrieve
  \/ CallNewStorage
  \/ CallWipe
  \/ CallUpdateLastUsed

FnSpec == FnInit /\ [][FnNext]_vars

(***************************************************************************)
(* Properties of one RetryCommand invocation                               *)
(***************************************************************************)
Attempts == Len(opHist)
Logins == Len(loginHist)
First == opHist[1]
Returned == rcPc = "returned"
InRetryCommand == rcPc \in {"attempt", "password", "login", "retry"}

\* C1: an operation that fails Unauthorized on both calls (password and
\* login having succeeded) ends the invocation: login was invoked exactly
\* once, the operation exactly twice, the second failure is returned as it
\* is, with no further notification, classification or re-authentication;
\* and whenever password retrieval and login succeed the retry is made.
C1_UnauthorizedTwiceIsTerminal ==
  /\ (Attempts >= 2 /\ opHist[1].sdm = "Unauthorized"
                    /\ opHist[2].sdm = "Unauthorized")
       => /\ Returned
          /\ Attempts = 2
          /\ Logins = 1 /\ loginHist[1] = Nil
          /\ Len(pwdHist) = 1 /\ pwdHist[1].err = Nil
          /\ rcErr = opHist[2] /\ rcErr # Nil
          /\ notes = <<"Authenticating...">>
  /\ (Returned /\ Logins = 1 /\ loginHist[1] = Nil) => Attempts = 2

C1_Witness ==
  /\ Returned /\ Attempts = 2
  /\ opHist[1].sdm = "Unauthorized" /\ opHist[2].sdm = "Unauthorized"

\* C2: Unauthorized on the first call and success on the second: login was
\* invoked exactly once, the operation exactly twice, RetryCommand returns
\* nil and no secret was deleted.
C2_UnauthorizedThenSuccess ==
  (Attempts >= 2 /\ opHist[1].sdm = "Unauthorized" /\ opHist[2] = Nil)
    => /\ Returned
       /\ Attempts = 2
       /\ Logins = 1 /\ loginHist[1] = Nil
       /\ rcErr = Nil
       /\ deletes = 0

C2_Witness ==
  Returned /\ Attempts = 2 /\ opHist[2] = Nil /\ rcErr = Nil

\* C3: success on the first call: RetryCommand returns nil after exactly
\* one call of the operation, with no password retrieval, no login and no
\* secret deletion.
C3_SuccessFirst ==
  (Attempts >= 1 /\ First = Nil)
    => /\ Returned
       /\ rcErr = Nil
       /\ Attempts = 1
       /\ pwdHist = <<>> /\ loginHist = <<>>
       /\ deletes = 0
       /\ notes = <<>>

C3_Witness == Returned /\ opHist = <<Nil>>

\* C4: InvalidCredentials on the first call: DeleteSecret is called exactly
\* once, login is not invoked, the operation is not called again, and
\* RetryCommand returns an error.
C4_InvalidCredentials ==
  (Attempts >= 1 /\ First.sdm = "InvalidCredentials")
    => /\ Returned
       /\ deletes = 1
       /\ loginHist = <<>> /\ pwdHist = <<>>
       /\ Attempts = 1
       /\ rcErr # Nil

C4_Witness ==
  Returned /\ Attempts = 1 /\ First.sdm = "InvalidCredentials" /\ deletes = 1

\* C5: Unauthorized on the first call and a failing login: DeleteSecret is
\* called, the failure is notified, RetryCommand returns an error and the
\* operation is never called a second time.
C5_LoginFailure ==
  (Logins >= 1 /\ loginHist[1] # Nil)
    => /\ Returned
       /\ First.sdm = "Unauthorized"
       /\ deletes = 1
       /\ notes = <<"Authenticating...", "Authentication error">>
       /\ rcErr # Nil
       /\ Attempts = 1
       /\ Logins = 1

C5_Witness ==
  Returned /\ Logins = 1 /\ loginHist[1] # Nil /\ First.sdm = "Unauthorized"

\* C6: whatever the operation, the credential provider and the login do,
\* an invocation never calls the operation more than twice nor login more
\* than once, and, every call returning, it reaches a terminal state.
C6_BoundedTermination ==
  /\ [](Attempts <= 2 /\ Logins <= 1)
  /\ (InRetryCommand ~> Returned)

C6_Witness ==
  Returned /\ Attempts = 2 /\ Logins = 1 /\ rcOp = "custom"

\* C7 as claimed: at most one login invocation during one top-level command.
C7_OneLoginPerCommand == cmdLogins <= 1

\* The RetryCommand invocations a command has entered so far.
Invocations ==
  CASE pc \in {"sync", "custom", "listSync"} -> 1
    [] pc = "connect" -> 2
    [] pc = "postSync" -> 3
    [] OTHER -> IF pc = "select" THEN 1 ELSE 0

\* C7 amended: each RetryCommand invocation performs at most one login, so
\* a command performs at most as many logins as it has entered invocations
\* (three for a menu or fuzzy-finder connect).
C7_OneLoginPerInvocation ==
  /\ Logins <= 1
  /\ cmdLogins <= Invocations
  /\ cmdLogins <= 3

C7_Witness ==
  command \in {"dmenu", "fzf"} /\ pc = "postSync" /\ cmdLogins = 3

\* C8: ResourceNotFound on the first call: a "Resource not found"
\* notification, an error that is ErrResourceNotFound, no retry, no login,
\* no secret deletion.
C8_ResourceNotFound ==
  (Attempts >= 1 /\ First.sdm = "ResourceNotFound")
    => /\ Returned
       /\ notes = <<"Resource not found">>
       /\ rcErr.sentinel = "ErrResourceNotFound"
       /\ Attempts = 1
       /\ loginHist = <<>> /\ pwdHist = <<>>
       /\ deletes = 0

C8_Witness ==
  Returned /\ First.sdm = "ResourceNotFound" /\ rcErr = ErrResourceNotFound

\* C9: a first failure of kind ConnectionFailed, PermissionDenied or Unknown,
\* or one that is no SDMError: one generic error notification, an error
\* returned after exactly one call, no login, no secret deletion.
Recoverable == {"Unauthorized", "InvalidCredentials", "ResourceNotFound"}

C9_OtherFailures ==
  (Attempts >= 1 /\ First # Nil /\ First.sdm \notin Recoverable)
    => /\ Returned
       /\ notes = <<IF First.sdm = "none" THEN "Unexpected error" ELSE "Error">>
       /\ rcErr # Nil
       /\ Attempts = 1
       /\ loginHist = <<>> /\ pwdHist = <<>>
       /\ deletes = 0

C9_Witness ==
  /\ Returned /\ First # Nil /\ First.sdm = "none" /\ rcErr # Nil

\* C10: an operation whose tool invocation was aborted by deadline expiry
\* or cancellation ends the invocation with an error: no login, no second
\* call, whatever the tool had printed.
C10_AbortIsTerminal ==
  (Attempts >= 1 /\ First.cause = "killed")
    => /\ rcPc = "returned"
       /\ rcErr # Nil
       /\ Attempts = 1
       /\ loginHist = <<>>

\* C11: a notification is emitted when re-authentication starts, and every
\* invocation that ends in failure, the failure of the retried call after a
\* successful login included, has emitted a failure notification last.
FailureNotes ==
  {"Authentication error", "Resource not found", "Error", "Unexpected error"}

C11_NotifyAtEveryTerminalFailure ==
  /\ (pwdHist # <<>> \/ rcPc \in {"password", "login", "retry"})
       => (notes # <<>> /\ notes[1] = "Authenticating...")
  /\ (Returned /\ rcErr # Nil)
       => (notes # <<>> /\ notes[Len(notes)] \in FailureNotes)

\* What a caller finds wrapped in a returned error: the sentinel that
\* errors.Is matches, else the code of the SDMError that errors.As finds.
WrappedKind(err) == IF err.sentinel # "none" THEN err.sentinel ELSE err.sdm

RevokedKinds == {"InvalidCredentials", "ErrPasswordRetrieval", "ErrEmptyPassword"}
NotFoundKinds == {"ErrResourceNotFound", "ResourceNotFound"}

\* The terminal failure states of the controller, by the path taken.
CredentialsRevoked ==
  /\ Returned
  /\ \/ (Attempts = 1 /\ First.sdm = "InvalidCredentials")
     \/ (Logins = 1 /\ loginHist[1] # Nil)

ReportedNotFound ==
  Returned /\ Attempts >= 1 /\ opHist[Attempts].sdm = "ResourceNotFound"

\* C12: every failed invocation over a classified operation returns an error
\* that wraps a kind, and the wrapped kind tells the outcomes apart: it is a
\* "not found" kind exactly when the invocation ended on a ResourceNotFound
\* failure, and a credentials kind whenever the invocation ended in
\* CredentialsRevoked (secret deleted), never both.
C12_DistinguishableKinds ==
  (Returned /\ rcErr # Nil /\ \A k \in 1..Attempts : opHist[k].sdm # "none")
    => /\ WrappedKind(rcErr) # "none"
       /\ ReportedNotFound <=> WrappedKind(rcErr) \in NotFoundKinds
       /\ CredentialsRevoked => WrappedKind(rcErr) \in RevokedKinds

(***************************************************************************)
(* Properties of the cache and of listing                                  *)
(***************************************************************************)
\* C13: no step of a RetryCommand invocation changes the cache, and a
\* record's lastUsedAt changes only once the connect's invocation has
\* returned success.
C13_LastUsedOnlyAfterSuccess ==
  [][ /\ InRetryCommand => cache' = cache
      /\ (\E n \in Names : cache'[n].lru # cache[n].lru)
           => (pc = "connect" /\ Returned /\ rcErr = Nil) ]_vars

Reported(buf) == {x.name : x \in parseDataSources(buf)}

\* C14: after Sync every reported record carries the reported descriptive
\* fields and the lastUsedAt the cache held for its name before; a record
\* that was not cached before has lastUsedAt zero.
C14_SyncKeepsLastUsed ==
  fn = "Sync" =>
    \A x \in arg.buf.items :
      /\ res.cache[x.name].status = x.status
      /\ arg.cache[x.name] # NoRec
           => res.cache[x.name].lru = arg.cache[x.name].lru
      /\ arg.cache[x.name] = NoRec => res.cache[x.name].lru = 0

C14_Witness ==
  /\ fn = "Sync"
  /\ \E x \in arg.buf.items :
       /\ arg.cache[x.name] # NoRec
       /\ arg.cache[x.name].lru > 0
       /\ arg.cache[x.name].status # x.status
       /\ res.cache[x.name] = [status |-> x.status, lru |-> arg.cache[x.name].lru]

\* C15: whatever commands run, no step lowers the lastUsedAt stored for a
\* name.
C15_LastUsedMonotone ==
  [][\A n \in Names : cache'[n].lru >= cache[n].lru]_vars

C15_Witness ==
  /\ pc = "idle" /\ exit = "ok"
  /\ \E n \in Names : cache[n].lru > 0

\* C16: storing N resources with distinct names into an empty cache and
\* reading the cache back yields exactly N records, one per stored resource,
\* with the stored descriptive fields.
C16_StoreRetrieveRoundTrip ==
  (fn = "Sync" /\ Present(arg.cache) = {} /\ arg.buf.kind = "json")
    => /\ Len(res.list) = Cardinality(arg.buf.items)
       /\ {[name |-> res.list[i].name, status |-> res.list[i].status] :
             i \in 1..Len(res.list)} = arg.buf.items

C16_Witness ==
  /\ fn = "Sync" /\ Present(arg.cache) = {}
  /\ Cardinality(arg.buf.items) = 2 /\ Len(res.list) = 2

\* C17: Sync leaves every record whose name the listing does not report as
\* it was, so no record is removed; an empty listing leaves the cache as it
\* was.
C17_SyncNeverRemoves ==
  fn = "Sync" =>
    /\ \A n \in Names : n \notin Reported(arg.buf) => res.cache[n] = arg.cache[n]
    /\ Present(arg.cache) \subseteq Present(res.cache)
    /\ Reported(arg.buf) = {} => res.cache = arg.cache

C17_Witness ==
  /\ fn = "Sync"
  /\ Reported(arg.buf) # {}
  /\ \E n \in Present(arg.cache) :
       n \notin Reported(arg.buf) /\ res.cache[n] = arg.cache[n]

\* C18: a listing command syncs exactly when the cache read is empty, and
\* then shows what the cache holds after the sync; with a record in the
\* cache a listing command invokes nothing.
ListingCommands == {"list", "dmenu", "fzf"}

C18_SyncIffCacheEmpty ==
  [][ /\ pc' = "listSync" => Present(cache') = {}
      /\ (pc = "idle" /\ command' \in ListingCommands /\ Present(cache) = {})
           => (pc' = "listSync" /\ rcPc' = "attempt" /\ rcOp' = "status")
      /\ (pc = "idle" /\ Present(cache) = {} /\ pc' = "idle") => exit' = exit
      /\ (pc = "idle" /\ Present(cache) # {})
           => (rcPc' = "idle" \/ command' \in {"sync", "custom"})
      /\ (pc = "listSync" /\ pc' = "select" /\ command = "dmenu")
           => Present(cache') # {} ]_vars

C18_Witness ==
  /\ pc = "select" /\ command = "dmenu"
  /\ cmdLogins = 1
  /\ Present(cache) # {}

\* C19: the filtered list holds exactly the records whose name no pattern
\* matches, in the order they had; with no pattern the list is returned as
\* it is.
Range(l) == {l[i] : i \in 1..Len(l)}

Pos(l, x) == CHOOSE i \in 1..Len(l) : l[i] = x

Matched(name, patterns) ==
  \E i \in 1..Len(patterns) : MatchString(patterns[i], name).match

C19_BlacklistFilters ==
  fn = "applyBlacklist" =>
    /\ Range(res.list) = {ds \in Range(arg.list) : ~Matched(ds.name, arg.patterns)}
    /\ \A i, j \in 1..Len(res.list) :
         i < j => Pos(arg.list, res.list[i]) < Pos(arg.list, res.list[j])
    /\ arg.patterns = <<>> => res.list = arg.list

C19_Witness ==
  /\ fn = "applyBlacklist"
  /\ Len(arg.list) = 3
  /\ Matched(arg.list[2].name, arg.patterns)
  /\ res.list = <<arg.list[1], arg.list[3]>>

\* C20: a pattern that does not compile is warned about whenever it is tried
\* on a record, matches no record, and the other patterns filter as they
\* would without it.
Invalid(regex) == MatchString(regex, "db").err

ValidOnly(patterns) == SelectSeq(patterns, LAMBDA r : ~Invalid(r))

C20_InvalidPatternLogged ==
  fn = "applyBlacklist" =>
    /\ \A i \in 1..Len(arg.patterns) :
         (/\ Invalid(arg.patterns[i])
          /\ \E k \in 1..Len(arg.list) :
               ~Matched(arg.list[k].name, SubSeq(arg.patterns, 1, i - 1)))
           => arg.patterns[i] \in res.warned
    /\ res.list = SelectSeq(arg.list,
                            LAMBDA ds : ~Matched(ds.name, ValidOnly(arg.patterns)))

(***************************************************************************)
(* Properties of the recency sort                                          *)
(***************************************************************************)
\* C21: the sorted list holds the records it was given, each once, and
\* every record's lastUsedAt is at least that of the record after it.
C21_SortedByRecency ==
  fn = "SortFunc" =>
    /\ Len(res.list) = Len(arg.list)
    /\ Range(res.list) = Range(arg.list)
    /\ \A i \in 1..(Len(res.list) - 1) : res.list[i].lru >= res.list[i + 1].lru

\* C21 witness: three records with lastUsedAt low, high, middle have been
\* sorted into high, middle, low.
C21_Witness ==
  /\ fn = "SortFunc"
  /\ Len(arg.list) = 3
  /\ arg.list[1].lru < arg.list[3].lru /\ arg.list[3].lru < arg.list[2].lru
  /\ res.list = <<arg.list[2], arg.list[3], arg.list[1]>>

\* C22: records with equal lastUsedAt come out in the relative order they
\* went in.
C22_SortStable ==
  fn = "SortFunc" =>
    \A i, j \in 1..Len(res.list) :
      (i < j /\ res.list[i].lru = res.list[j].lru)
        => Pos(arg.list, res.list[i]) < Pos(arg.list, res.list[j])

(***************************************************************************)
(* Properties of the selection and of the connect that follows it          *)
(***************************************************************************)
\* C23: when the name handed back by the picker has no cache record, the
\* command shows "Resource not found" and ends: no tool invocation is made
\* and the cache is left as it was.
C23_AbsentNameStops ==
  [][(pc = "select" /\ selected'.name \in Names
        /\ cache[selected'.name] = NoRec)
       => /\ pc' = "idle" /\ rcPc' = "idle"
          /\ notes' = <<"Resource not found">>
          /\ opHist' = <<>> /\ loginHist' = <<>>
          /\ cache' = cache]_vars

\* C23 witness: a menu over a non-empty cache has ended on a name the cache
\* does not hold.
C23_Witness ==
  /\ pc = "idle" /\ exit = "ok"
  /\ selected.name \in Names /\ cache[selected.name] = NoRec
  /\ Present(cache) # {}
  /\ notes = <<"Resource not found">>

\* C24: when the Sync that follows a successful connect fails, the command
\* ends with success and the cache, lastUsedAt included, is left as the
\* connect wrote it.
C24_FollowUpSyncFailureIgnored ==
  [][(pc = "postSync" /\ rcPc = "returned" /\ rcErr # Nil)
       => /\ cache' = cache
          /\ pc' # "postSync" => (pc' = "idle" /\ exit' = "ok")]_vars

\* C24 witness: the follow-up Sync of a connect made at a later time than 0
\* has failed, and the record connected to carries that time.
C24_Witness ==
  /\ pc = "postSync" /\ rcPc = "returned" /\ rcErr # Nil
  /\ command \in {"dmenu", "fzf"}
  /\ \E n \in Present(cache) : cache[n].lru > 0

\* C25: a cancelled selection ends the command with success, without a tool
\* invocation and without a cache write.
C25_CancelIsNoOp ==
  [][(pc = "select" /\ selected'.name = "<cancel>")
       => /\ pc' = "idle" /\ rcPc' = "idle"
          /\ exit' = "ok"
          /\ opHist' = <<>> /\ loginHist' = <<>>
          /\ cache' = cache]_vars

(***************************************************************************)
(* Properties of a cancelled password prompt                               *)
(***************************************************************************)
\* What a caller of RetryCommand and the user can observe of a failed
\* invocation: the kind found by errors.Is / errors.As and the
\* notifications shown.
Surface(err, ns) == [kind |-> WrappedKind(err), notes |-> ns]

\* The surfaces of the password-retrieval failures that are no cancellation.
OtherPasswordFailures ==
  {LET p == retrievePassword(NoSecret, TRUE, prompt, TRUE)
       d == handleUnauthorizedPassword(p.err)
   IN Surface(d.ret, <<"Authenticating...">> \o d.notes) :
     prompt \in {q \in PromptResults \ {Cancel} :
                   retrievePassword(NoSecret, TRUE, q, TRUE).err # Nil}}

\* C26: after the password prompt was cancelled the invocation has made no
\* login and no second call of the closure, and what it returns and shows
\* differs from what any other password-retrieval failure returns and shows.
C26_CancelDistinguishable ==
  (rcPc = "returned" /\ pwdHist # <<>>
     /\ pwdHist[Len(pwdHist)].err.cause = askForPassword(Cancel))
    => /\ loginHist = <<>>
       /\ Len(opHist) = 1
       /\ Surface(rcErr, notes) \notin OtherPasswordFailures

(***************************************************************************)
(* Properties of Sync on a malformed listing                               *)
(***************************************************************************)
\* C27: when the status invocation succeeded with an output that is no JSON
\* array, the sync command fails and leaves the cache as it was, and an
\* invocation whose first call gave that output has asked for no password
\* and made no login.
C27_MalformedListingFatal ==
  [][(pc = "sync" /\ rcPc = "returned" /\ rcErr = Nil
        /\ statusBuf = TextBuf /\ pc' = "idle")
       => /\ exit' = "fail"
          /\ cache' = cache
          /\ Len(opHist) = 1 => (pwdHist = <<>> /\ loginHist = <<>>)]_vars

(***************************************************************************)
(* Properties of the classifier and of the client operations               *)
(***************************************************************************)
\* The kind the matcher table associates with a pattern.
KindOf(p) ==
  errorMatchers[CHOOSE i \in DOMAIN errorMatchers :
                  errorMatchers[i].pattern = p].code

\* C28: with a nil error the classifier returns no error whatever the
\* output; with a non-nil error it returns an SDMError over that error
\* whose message is the output and whose kind is Unknown when the output
\* holds no pattern, the kind of a pattern it holds otherwise, and that
\* pattern's kind when all patterns it holds are of one kind.
C28_ClassifierTotal ==
  fn = "parseSdmError" =>
    /\ arg.err = "nil" => (res.err = Nil /\ res.msg = NoMsg)
    /\ arg.err # "nil" =>
         /\ res.err.msg = "SDMError" /\ res.err.sdm \in Codes
         /\ res.err.cause = arg.err
         /\ res.msg = arg.output
         /\ res.err.sdm = "Unknown" <=> arg.output = {}
         /\ arg.output # {} => res.err.sdm \in {KindOf(p) : p \in arg.output}

\* C28 witness: the classifier has been applied to a non-nil error and an
\* output holding "access denied" and has returned InvalidCredentials with
\* that output as its message.
C28_Witness ==
  /\ fn = "parseSdmError"
  /\ arg.err = "exit" /\ arg.output = {"access denied"}
  /\ res.err.sdm = "InvalidCredentials"
  /\ res.msg = {"access denied"}

\* C29: an output holding both "You are not authenticated" and "Cannot find
\* datasource named" is classified ResourceNotFound.
C29_MostSpecificWins ==
  (fn = "parseSdmError" /\ arg.err # "nil"
     /\ {"You are not authenticated", "Cannot find datasource named"}
          \subseteq arg.output)
    => res.err.sdm = "ResourceNotFound"

\* C30: each client operation returns no error on exit status 0; on a
\* non-zero exit status it returns its own "... command failed" error in
\* whose chain errors.As finds an SDMError, of kind Unknown for an output
\* without a pattern and of the pattern's kind for an output with one.
C30_ClientErrorsClassified ==
  fn = "SDMClient" =>
    /\ arg.r.err = "nil" => res.err = Nil
    /\ arg.r.err = "exit" =>
         /\ res.err.msg \in {"logout command failed", "login command failed",
                             "status command failed", "connect command failed"}
         /\ res.err.sdm \in Codes
         /\ arg.r.output = {} => res.err.sdm = "Unknown"
         /\ \A p \in Patterns :
              arg.r.output = {p} => res.err.sdm = KindOf(p)

\* C30 witness: a logout that ended with a non-zero exit status and "You
\* are not authenticated" has returned a wrapped Unauthorized.
C30_Witness ==
  /\ fn = "SDMClient" /\ arg.op = "logout"
  /\ arg.r = [err |-> "exit", output |-> {"You are not authenticated"}]
  /\ res.err.msg = "logout command failed"
  /\ res.err.sdm = "Unauthorized"

(***************************************************************************)
(* Properties of the account validation                                    *)
(***************************************************************************)
\* The patterns by which the tool says that no one is logged in.
AuthPatterns ==
  {errorMatchers[i].pattern :
     i \in {j \in DOMAIN errorMatchers : errorMatchers[j].code = "Unauthorized"}}

\* C31: the logout is invoked exactly when the ready check names an account
\* other than the configured one; a logout that succeeded, or that failed
\* with an output saying that no one is logged in, gives no error; any other
\* failed logout gives the error "failed to logout".
C31_LogoutIffOtherAccount ==
  fn = "ValidateAccount" =>
    /\ res.logout <=> arg.ready \in Accounts \ {CurrentAccount}
    /\ res.logout =>
         /\ res.err = Nil <=>
              (arg.r.err = "nil" \/ arg.r.output \cap AuthPatterns # {})
         /\ res.err # Nil =>
              (res.err.msg = "failed to logout" /\ res.err.sdm \in Codes)
    /\ (~res.logout /\ res.err # Nil) => arg.ready \in {"<fail>", "<badjson>"}

\* C31 witness: another account was logged in and the logout failed because
\* the tool said "You are not authenticated": no error.
C31_Witness ==
  /\ fn = "ValidateAccount"
  /\ arg.ready = "u@x.org"
  /\ arg.r = [err |-> "exit", output |-> {"You are not authenticated"}]
  /\ res = [err |-> Nil, logout |-> TRUE]

(***************************************************************************)
(* Properties of the credential provider                                   *)
(***************************************************************************)
\* C32: the prompt is shown exactly when the keyring lookup fails or finds
\* no secret or an empty one; a password entered at the prompt is the one
\* the login is attempted with, whether or not the keyring saved it.
C32_PromptIffNoSecret ==
  fn = "retrievePassword" =>
    /\ res.prompted <=> (~arg.getOk \/ arg.sec \in {NoSecret, ""})
    /\ ~res.prompted => (res.password = arg.sec /\ res.next = "login")
    /\ (res.prompted /\ arg.prompt \in Passwords) =>
         /\ res.err = Nil /\ res.password = arg.prompt
         /\ res.next = "login"
         /\ res.secret = IF arg.setOk THEN arg.prompt ELSE arg.sec

\* C32 witness: the keyring held nothing and refused the save; the entered
\* password goes to the login.
C32_Witness ==
  /\ fn = "retrievePassword"
  /\ arg.sec = NoSecret /\ ~arg.setOk /\ arg.prompt \in Passwords
  /\ res.prompted /\ res.password = arg.prompt
  /\ res.secret = NoSecret
  /\ res.next = "login"

(***************************************************************************)
(* Properties of the secret after a credential failure                     *)
(***************************************************************************)
\* C33: when an invocation has ended because the operation was classified
\* InvalidCredentials or because the login failed, the keyring holds no
\* secret for the account.
C33_NoSecretAfterCredentialFailure ==
  CredentialsRevoked => secret = NoSecret

(***************************************************************************)
(* Properties of the cache file at start-up                                *)
(***************************************************************************)
\* C34: after start-up a versioned bucket of the configured account that
\* was in the file is gone exactly when the current version is more than
\* retentionPeriod versions ahead of it; the bucket of the current version
\* exists, with the records it had when it was already there.
C34_CleanupByRetention ==
  fn = "NewStorage" =>
    /\ \A k \in BucketKeys :
         (k.account = CurrentAccount /\ k.version # Legacy
            /\ arg.db[k] # NoBucket)
           => /\ res.db[k] = NoBucket <=>
                   currentDBVersion - Atoi(k.version) > retentionPeriod
              /\ res.db[k] # NoBucket => res.db[k] = arg.db[k]
    /\ res.db[CurrentKey] # NoBucket
    /\ arg.db[CurrentKey] # NoBucket => res.db[CurrentKey] = arg.db[CurrentKey]

\* C34 witness: the file held records of the current version and a bucket
\* of the configured account three versions behind; start-up removed the
\* second and kept the first.
C34_Witness ==
  /\ fn = "NewStorage"
  /\ \E k \in BucketKeys :
       /\ k.account = CurrentAccount /\ k.version # Legacy
       /\ currentDBVersion - Atoi(k.version) > retentionPeriod
       /\ arg.db[k] # NoBucket /\ res.db[k] = NoBucket
  /\ arg.db[CurrentKey] # EmptyBucket /\ arg.db[CurrentKey] # NoBucket
  /\ res.db[CurrentKey] = arg.db[CurrentKey]

\* C35: after Wipe no bucket of the configured account is left, so that the
\* next start-up finds the account's cache empty, and every bucket of
\* another account is as it was when the file was opened.
C35_WipeOnlyCurrentAccount ==
  fn = "Wipe" =>
    /\ \A k \in BucketKeys : k.account = CurrentAccount => res.db[k] = NoBucket
    /\ ensureBucketExists(res.db)[CurrentKey] = EmptyBucket
    /\ \A k \in BucketKeys :
         k.account # CurrentAccount => res.db[k] = res.opened[k]

\* C40: start-up leaves every bucket of another account as it was.
C40_CleanupKeepsOtherAccounts ==
  fn = "NewStorage" =>
    \A k \in BucketKeys : k.account # CurrentAccount => res.db[k] = arg.db[k]

(***************************************************************************)
(* Properties of the listing after a connect                               *)
(***************************************************************************)
\* GetSortedDataSources over the cache c with the configured blacklist.
Listing(c, patterns) ==
  SortFunc(applyBlacklist(RetrieveDatasources(c), patterns).list)

\* The blacklists of at most one pattern: between them they hide every set
\* of cached names that some blacklist hides.
ShortBlacklists == {<<>>} \cup {<<r>> : r \in Regexes}

\* A command has ended after a successful connect to the record it selected.
ConnectedTo(n) ==
  /\ pc = "idle" /\ exit = "ok"
  /\ selected.name = n /\ selected.status # "<absent>"

\* C36: when the connect to X left X's lastUsedAt later than that of every
\* other record, and later than 0, the lastUsedAt of a record the follow-up
\* Sync may add, then once that Sync has returned, with or without an
\* error, every listing of the cache that shows X shows it first.
C36_ConnectedListedFirst ==
  [][\A n \in Names :
       (pc = "postSync" /\ pc' = "idle" /\ selected.name = n
          /\ cache[n].lru > 0
          /\ \A m \in Present(cache) \ {n} : cache[m].lru < cache[n].lru)
         => /\ n \in Present(cache')
            /\ \A patterns \in ShortBlacklists :
                 LET l == Listing(cache', patterns)
                 IN (\E i \in 1..Len(l) : l[i].name = n) => l[1].name = n]_vars

\* C36 witness: the connect was made to web at a later time than db's
\* lastUsedAt; db precedes web in key order.
C36_Witness ==
  /\ ConnectedTo("web")
  /\ cache["db"] # NoRec
  /\ cache["db"].lru < cache["web"].lru
  /\ Listing(cache, <<>>)[1].name = "web"

\* C37: when Sync's status invocation fails Unauthorized and succeeds after
\* re-authentication, the buffer Sync parses holds what the second
\* invocation printed and nothing of the first, and the records written are
\* the ones parsed from it.
C37_OnlySecondOutputStored ==
  [][(/\ pc \in {"listSync", "sync", "postSync"} /\ rcOp = "status"
      /\ Returned /\ rcErr = Nil
      /\ Attempts = 2 /\ opHist[1].sdm = "Unauthorized"
      /\ pc' # pc)
       => /\ statusBuf = printed
          /\ cache' = StoreServers(cache, parseDataSources(printed))]_vars

\* C37 witness: the status invocation of a sync command failed Unauthorized
\* and then printed a listing with a record the cache does not hold; the
\* buffer holds that listing and Sync is about to store it.
C37_Witness ==
  /\ pc = "sync" /\ rcOp = "status" /\ Returned /\ rcErr = Nil
  /\ Attempts = 2 /\ opHist[1].sdm = "Unauthorized"
  /\ statusBuf.kind = "json"
  /\ \E x \in parseDataSources(statusBuf) : cache[x.name] = NoRec

InSync == pc \in {"listSync", "sync", "postSync"} /\ rcOp = "status"

\* C38: when the status listing of a Sync ends in an error returned by
\* RetryCommand, no step of that Sync has changed the cache, and the step
\* that ends it changes nothing in the cache either and ends the command
\* with that failure (with success when the Sync followed a connect, whose
\* caller drops the error).
C38_FailedSyncKeepsCache ==
  [][/\ (InSync /\ ~(Returned /\ rcErr = Nil)) => cache' = cache
     /\ (InSync /\ Returned /\ rcErr # Nil /\ pc' # pc)
          => /\ pc' = "idle"
             /\ exit' = IF pc = "postSync" THEN "ok" ELSE "fail"]_vars

\* C38 witness: the status invocation of a sync command printed a listing
\* with a record the cache does not hold and failed for good.
C38_Witness ==
  /\ pc = "sync" /\ rcOp = "status" /\ Returned /\ rcErr # Nil
  /\ \E x \in parseDataSources(statusBuf) : cache[x.name] = NoRec

\* C39: UpdateLastUsed for a record changes nothing in the file but the
\* lastUsedAt of that record's entry in the bucket of the configured account
\* and the current version; storing a sync result changes only entries
\* whose names occur in the result.
C39_WritesConfined ==
  /\ fn = "UpdateLastUsed" =>
       /\ \A k \in BucketKeys \ {CurrentKey} : res.db[k] = arg.db[k]
       /\ res.db[CurrentKey].exists
       /\ \A m \in Names \ {arg.name} :
            res.db[CurrentKey].records[m] = arg.db[CurrentKey].records[m]
       /\ res.db[CurrentKey].records[arg.name] =
            [arg.db[CurrentKey].records[arg.name] EXCEPT !.lru = arg.t]
  /\ fn = "Sync" =>
       \A n \in Names :
         res.cache[n] # arg.cache[n]
           => \E x \in parseDataSources(arg.buf) : x.name = n

\* C39 witness: UpdateLastUsed has stamped one of two records of the
\* current bucket with a new time, in a file that also holds a bucket of an
\* account whose name extends the configured one.
C39_Witness ==
  /\ fn = "UpdateLastUsed"
  /\ \A m \in Names : arg.db[CurrentKey].records[m] # NoRec
  /\ res.db # arg.db
  /\ \E k \in BucketKeys : k.account = "u@x.org" /\ arg.db[k].exists

====
